---- MODULE Spec2Model ----
(***************************************************************************)
(* gtop: a terminal GPU dashboard (src/src/main.rs).                       *)
(*                                                                         *)
(* Representation of the Rust values:                                      *)
(*   Option<T>   None is <<>>, Some(v) is <<v>>.                           *)
(*   f32         a record [nan, d]: d is the value in tenths (45.3 degrees *)
(*               is d = 453, 90 W is d = 900), nan marks a NaN, which      *)
(*               compares false with everything.  Every f32 the program    *)
(*               computes or compares is a multiple of 0.1 up to rounding  *)
(*               error far below 0.05, so d decides every comparison and   *)
(*               every printed digit.  Values are non-negative.            *)
(*   f64 ratio   a record [nan, n, m] standing for the fraction n / m.     *)
(*   String      the sequence of its characters, each a one-character      *)
(*               string; "deg" stands for the degree sign and "emdash"     *)
(*               for the long dash.                                        *)
(*   u32, u64    naturals; every value of the model is far below 2^31, so  *)
(*               `counter as u32` keeps the value and `tick += 1` does not *)
(*               overflow.                                                 *)
(*   Instant     a natural that never decreases.                           *)
(***************************************************************************)
EXTENDS Integers, Sequences, FiniteSets, TLC

VARIABLES
    running,    \* App.running
    tick,       \* App.tick
    metrics,    \* App.metrics
    pc,         \* position in main / run_app
    res,        \* the result of run_app held by main ("none" before it returns)
    exit,       \* what main returned ("none" while it runs)
    rawMode,    \* the terminal is in raw mode
    altScreen,  \* the terminal shows the alternate screen
    attempted,  \* the teardown steps main has attempted
    screen,     \* the frame last drawn (<<>> before the first draw)
    frames,     \* number of frames drawn
    timeouts,   \* number of loop iterations whose poll timed out
    keys,       \* number of on_key dispatches
    event,      \* the input event last read (<<>> when none)
    now,        \* the monotonic clock behind Instant::now()
    call,       \* the operation last applied, with its arguments
    ret         \* what a pure function last called returned

vars == <<running, tick, metrics, pc, res, exit, rawMode, altScreen, attempted,
          screen, frames, timeouts, keys, event, now, call, ret>>

\* ---------------------------------------------------------------- bounds
MaxTick == 4        \* ticks taken in one run
MaxFrames == 5      \* frames drawn in one run
MaxInstant == 2     \* clock readings
MaxMb == 3          \* small VRAM sizes tried besides the large ones
Eps == 1            \* tenths tried on each side of every threshold
MaxDevices == 2     \* devices in a hand-built sample set

\* ---------------------------------------------------------------- values
None == <<>>
Some(v) == <<v>>
IsSome(o) == o # <<>>
Unwrap(o) == o[1]

F32(d) == [nan |-> FALSE, d |-> d]
NaN == [nan |-> TRUE, d |-> 0]
\* a >= k for an f32 a and a literal of k tenths
Ge(a, k) == ~a.nan /\ a.d >= k

Ratio(n, m) == [nan |-> FALSE, n |-> n, m |-> m]
RatioNaN == [nan |-> TRUE, n |-> 0, m |-> 1]

Style(color) == [fg |-> color]
StyleDefault == [fg |-> "None"]

\* u32/u64/usize to_string
RECURSIVE to_string(_)
to_string(n) ==
    LET digit(k) == <<"0","1","2","3","4","5","6","7","8","9">>[k + 1]
    IN IF n < 10 THEN <<digit(n)>> ELSE to_string(n \div 10) \o <<digit(n % 10)>>

\* format!("{t:.1}") of an f32
fmt_1(x) ==
    IF x.nan THEN <<"N","a","N">>
    ELSE to_string(x.d \div 10) \o <<".">> \o to_string(x.d % 10)

\* format!("{p:.0}") of an f32: the nearest integer, a tie going to the even one
fmt_0(x) ==
    IF x.nan THEN <<"N","a","N">>
    ELSE LET q == x.d \div 10
             r == x.d % 10
         IN to_string(IF r > 5 \/ (r = 5 /\ q % 2 = 1) THEN q + 1 ELSE q)

fmt_opt(v) == IF IsSome(v) THEN to_string(Unwrap(v)) ELSE <<"-","-">>

fmt_vram(used, total) ==
    IF IsSome(used) /\ IsSome(total)
    THEN to_string(Unwrap(used)) \o <<" ","/"," ">> \o to_string(Unwrap(total)) \o <<" ","M","B">>
    ELSE IF IsSome(used)
    THEN to_string(Unwrap(used)) \o <<" ","M","B"," ","/"," ","?">>
    ELSE <<"-","-">>

\* (u as f64 / t as f64).clamp(0.0, 1.0)
clamp01(n, m) == IF n > m THEN Ratio(1, 1) ELSE IF n < 0 THEN Ratio(0, 1) ELSE Ratio(n, m)

vram_ratio_noclamp(used, total) ==
    IF IsSome(used) /\ IsSome(total) /\ Unwrap(total) > 0
    THEN Ratio(Unwrap(used), Unwrap(total))
    ELSE Ratio(0, 1)

vram_ratio(used, total) ==
    IF IsSome(used) /\ IsSome(total) /\ Unwrap(total) > 0
    THEN clamp01(Unwrap(used), Unwrap(total))
    ELSE Ratio(0, 1)

\* p.clamp(0.0, 100.0) as f64 / 100.0; a NaN stays a NaN
pct_ratio(pct) ==
    IF ~IsSome(pct) THEN Ratio(0, 1)
    ELSE IF Unwrap(pct).nan THEN RatioNaN
    ELSE clamp01(Unwrap(pct).d, 1000)

gauge_style(r) ==
    IF ~r.nan /\ r.n * 100 >= 90 * r.m THEN Style("Red")
    ELSE IF ~r.nan /\ r.n * 100 >= 75 * r.m THEN Style("Yellow")
    ELSE Style("Green")

temp_style_strict(temp_c) ==
    IF IsSome(temp_c) /\ ~Unwrap(temp_c).nan /\ Unwrap(temp_c).d > 900 THEN Style("Red")
    ELSE IF IsSome(temp_c) /\ Ge(Unwrap(temp_c), 800) THEN Style("Yellow")
    ELSE IF IsSome(temp_c) THEN Style("Green")
    ELSE Style("DarkGray")

temp_style(temp_c) ==
    IF IsSome(temp_c) /\ Ge(Unwrap(temp_c), 900) THEN Style("Red")
    ELSE IF IsSome(temp_c) /\ Ge(Unwrap(temp_c), 800) THEN Style("Yellow")
    ELSE IF IsSome(temp_c) THEN Style("Green")
    ELSE Style("DarkGray")

power_style(power_w) ==
    IF IsSome(power_w) /\ Ge(Unwrap(power_w), 3000) THEN Style("Red")
    ELSE IF IsSome(power_w) /\ Ge(Unwrap(power_w), 2200) THEN Style("Yellow")
    ELSE IF IsSome(power_w) THEN Style("Green")
    ELSE Style("DarkGray")

junction_style(temp_c) ==
    IF IsSome(temp_c) /\ Ge(Unwrap(temp_c), 1050) THEN Style("Red")
    ELSE IF IsSome(temp_c) /\ Ge(Unwrap(temp_c), 950) THEN Style("Yellow")
    ELSE IF IsSome(temp_c) THEN Style("Green")
    ELSE Style("DarkGray")

mem_temp_style(temp_c) ==
    IF IsSome(temp_c) /\ Ge(Unwrap(temp_c), 950) THEN Style("Red")
    ELSE IF IsSome(temp_c) /\ Ge(Unwrap(temp_c), 850) THEN Style("Yellow")
    ELSE IF IsSome(temp_c) THEN Style("Green")
    ELSE Style("DarkGray")

\* ---------------------------------------------------------------- sampler
GpuMetrics(name, temp, junction, mem, util, used, total, power, fan, core, memclk, ts) ==
    [name |-> name, temperature_c |-> temp, junction_temp_c |-> junction,
     mem_temp_c |-> mem, utilization_pct |-> util, vram_used_mb |-> used,
     vram_total_mb |-> total, power_w |-> power, fan_rpm |-> fan,
     core_clock_mhz |-> core, mem_clock_mhz |-> memclk, timestamp |-> ts]

\* sample_fake(counter), with the reading of Instant::now() as `instant`
sample_fake(counter, instant) ==
    LET temp == 450 + (counter % 30) * 3
        util == (counter % 100) * 10
        used == 1200 + (counter % 800)
        total == 16384
        junction == temp + 120 + (counter % 10) * 2
        mem_temp == temp + 60
        core_clk == 800 + (counter % 1600)
        mem_clk == 1000 + (counter % 800)
    IN << GpuMetrics(<<"A","M","D"," ","R","a","d","e","o","n"," ","(","m","o","c","k",")">>,
                     Some(F32(temp)), Some(F32(junction)), Some(F32(mem_temp)),
                     Some(F32(util)), Some(used), Some(total),
                     Some(F32(900 + (counter % 20) * 10)),
                     Some(1200 + (counter % 400)),
                     Some(core_clk), Some(mem_clk), instant) >>

\* ---------------------------------------------------------------- App
App == [running |-> running, tick |-> tick, metrics |-> metrics]

App_new == [running |-> TRUE, tick |-> 0, metrics |-> <<>>]

on_tick_append(app, instant) ==
    [app EXCEPT !.metrics = app.metrics \o sample_fake(app.tick, instant),
                !.tick = app.tick + 1]

on_tick(app, instant) ==
    [app EXCEPT !.metrics = sample_fake(app.tick, instant),
                !.tick = app.tick + 1]

Char(c) == [t |-> "Char", c |-> c]
Esc == [t |-> "Esc", c |-> ""]
Enter == [t |-> "Enter", c |-> ""]

on_key_any_char(app, code) ==
    IF code.t = "Char" \/ code = Esc THEN [app EXCEPT !.running = FALSE] ELSE app

on_key(app, code) ==
    IF code = Char("q") \/ code = Esc THEN [app EXCEPT !.running = FALSE] ELSE app

\* ---------------------------------------------------------------- ui
Span(content, style) == [content |-> content, style |-> style]
Raw(content) == Span(content, StyleDefault)

\* the lines ui pushes for the device at index i
gpu_lines(i, gpu) ==
    LET temp_str == IF IsSome(gpu.temperature_c) THEN fmt_1(Unwrap(gpu.temperature_c))
                    ELSE <<"-","-">>
        junction_str == IF IsSome(gpu.junction_temp_c) THEN fmt_1(Unwrap(gpu.junction_temp_c))
                        ELSE <<"-","-">>
        mem_str == IF IsSome(gpu.mem_temp_c) THEN fmt_1(Unwrap(gpu.mem_temp_c))
                   ELSE <<"-","-">>
        power_str == IF IsSome(gpu.power_w) THEN fmt_0(Unwrap(gpu.power_w))
                     ELSE <<"-","-">>
        core == IF IsSome(gpu.core_clock_mhz) THEN to_string(Unwrap(gpu.core_clock_mhz))
                ELSE <<"-","-">>
        mem == IF IsSome(gpu.mem_clock_mhz) THEN to_string(Unwrap(gpu.mem_clock_mhz))
               ELSE <<"-","-">>
    IN (IF i > 0 THEN << <<Raw(<<>>)>> >> ELSE <<>>) \o
       << <<Raw(<<"G","P","U"," ">> \o to_string(i) \o <<":"," ">> \o gpu.name)>>,
          <<Raw(<<"T","e","m","p",":"," ">>),
            Span(temp_str \o <<" ","deg","C">>, temp_style(gpu.temperature_c))>>,
          <<Raw(<<"J","u","n","c","t","i","o","n",":"," ">>),
            Span(junction_str \o <<" ","deg","C">>, junction_style(gpu.junction_temp_c))>>,
          <<Raw(<<"M","e","m"," ","T","e","m","p",":"," ">>),
            Span(mem_str \o <<" ","deg","C">>, mem_temp_style(gpu.mem_temp_c))>>,
          <<Raw(<<"P","o","w","e","r",":"," ">>),
            Span(power_str \o <<" ","W">>, power_style(gpu.power_w))>>,
          <<Raw(<<"C","l","o","c","k","s",":"," ","c","o","r","e"," ">> \o core \o
                <<" ","M","H","z"," ","|"," ","m","e","m"," ">> \o mem \o <<" ","M","H","z">>)>>,
          <<Raw(<<"F","a","n",":"," ">> \o fmt_opt(gpu.fan_rpm) \o <<" ","R","P","M">>)>> >>

\* the lines of the first k devices, in the order of metrics
RECURSIVE text_lines(_, _)
text_lines(ms, k) ==
    IF k = 0 THEN <<>> ELSE text_lines(ms, k - 1) \o gpu_lines(k - 1, ms[k])

vram_label(ms) ==
    IF Len(ms) = 0 THEN <<"V","R","A","M"," ","-","-">>
    ELSE LET u == ms[1].vram_used_mb
             t == ms[1].vram_total_mb
         IN IF IsSome(u) /\ IsSome(t)
            THEN <<"V","R","A","M"," ">> \o to_string(Unwrap(u)) \o <<" ","/"," ">> \o
                 to_string(Unwrap(t)) \o <<" ","M","B">>
            ELSE IF IsSome(u)
            THEN <<"V","R","A","M"," ">> \o to_string(Unwrap(u)) \o <<" ","/"," ","?"," ","M","B">>
            ELSE <<"V","R","A","M"," ","-","-">>

util_label(ms) ==
    IF Len(ms) > 0 /\ IsSome(ms[1].utilization_pct)
    THEN <<"G","P","U"," ","U","t","i","l"," ">> \o fmt_0(Unwrap(ms[1].utilization_pct)) \o <<"%">>
    ELSE <<"G","P","U"," ","U","t","i","l"," ","-","-">>

footer_text_stale(app) ==
    <<"T","i","c","k",":"," ">> \o to_string(app.tick - 1) \o
    <<" "," "," ","(","d","a","t","a"," ","i","s"," ","m","o","c","k","e","d",")">>

footer_text(app) ==
    <<"T","i","c","k",":"," ">> \o to_string(app.tick) \o
    <<" "," "," ","(","d","a","t","a"," ","i","s"," ","m","o","c","k","e","d",")">>

\* the frame ui renders: what each widget is given
ui(app) ==
    LET ms == app.metrics
        ratio == IF Len(ms) > 0 THEN vram_ratio(ms[1].vram_used_mb, ms[1].vram_total_mb)
                 ELSE Ratio(0, 1)
        util_ratio == IF Len(ms) > 0 THEN pct_ratio(ms[1].utilization_pct) ELSE Ratio(0, 1)
    IN [header |-> <<"g","t","o","p"," ","emdash"," ","m","o","c","k"," ","m","e","t","r","i",
                     "c","s"," ","m","o","d","e"," ","(","M","a","c","B","o","o","k",")"," ",
                     "emdash"," ","q"," ","t","o"," ","q","u","i","t">>,
        body |-> text_lines(ms, Len(ms)),
        util_gauge |-> [style |-> gauge_style(util_ratio), ratio |-> util_ratio,
                        label |-> util_label(ms)],
        vram_gauge |-> [style |-> gauge_style(ratio), ratio |-> ratio,
                        label |-> vram_label(ms)],
        footer |-> footer_text(app)]

\* ---------------------------------------------------------------- inputs
KeyCodes == {Char("q"), Char("Q"), Char("x"), Esc, Enter}
KeyKinds == {"Press", "Repeat", "Release"}
KeyEvent(kind, code) == [t |-> "Key", kind |-> kind, code |-> code]
Events == {KeyEvent(k, c) : k \in KeyKinds, c \in KeyCodes}
              \cup {[t |-> "Resize"], [t |-> "Mouse"], [t |-> "FocusGained"]}

Teardown == {"disable_raw_mode", "LeaveAlternateScreen", "show_cursor"}

NoCall == [op |-> "none", args |-> <<>>]

\* ---------------------------------------------------------------- main
\* the process starts: main has not run a statement, no App exists yet
\* (the App variables hold what App::new will give them)
Init ==
    /\ running = App_new.running
    /\ tick = App_new.tick
    /\ metrics = App_new.metrics
    /\ pc = "enable_raw_mode"
    /\ res = "none"
    /\ exit = "none"
    /\ rawMode = FALSE
    /\ altScreen = FALSE
    /\ attempted = {}
    /\ screen = <<>>
    /\ frames = 0
    /\ timeouts = 0
    /\ keys = 0
    /\ event = <<>>
    /\ now = 0
    /\ call = NoCall
    /\ ret = <<>>

appVars == <<running, tick, metrics>>
termVars == <<rawMode, altScreen, attempted>>
loopVars == <<screen, frames, timeouts, keys, event, now>>
unitVars == <<call, ret>>

\* main returns r
Return(r) == pc' = "exited" /\ exit' = r

\* enable_raw_mode()?
EnableRawMode(ok) ==
    /\ pc = "enable_raw_mode"
    /\ IF ok THEN rawMode' = TRUE /\ pc' = "EnterAlternateScreen" /\ exit' = exit
             ELSE rawMode' = rawMode /\ Return("Err")
    /\ UNCHANGED <<appVars, res, altScreen, attempted, loopVars, unitVars>>

\* execute!(stdout, EnterAlternateScreen)?
EnterAlternateScreen(ok) ==
    /\ pc = "EnterAlternateScreen"
    /\ IF ok THEN altScreen' = TRUE /\ pc' = "Terminal_new" /\ exit' = exit
             ELSE altScreen' = altScreen /\ Return("Err")
    /\ UNCHANGED <<appVars, res, rawMode, attempted, loopVars, unitVars>>

\* Terminal::new(backend)?
Terminal_new(ok) ==
    /\ pc = "Terminal_new"
    /\ IF ok THEN pc' = "run_app" /\ exit' = exit ELSE Return("Err")
    /\ UNCHANGED <<appVars, res, termVars, loopVars, unitVars>>

\* run_app up to its loop, without the forced tick
run_app_no_first_tick ==
    /\ pc = "run_app"
    /\ running' = App_new.running
    /\ tick' = App_new.tick
    /\ metrics' = App_new.metrics
    /\ pc' = "while"
    /\ UNCHANGED <<res, exit, termVars, loopVars, unitVars>>

\* run_app up to its loop: App::new() and the forced app.on_tick()
run_app ==
    /\ pc = "run_app"
    /\ \E instant \in now..MaxInstant :
          LET app == on_tick(App_new, instant)
          IN /\ running' = app.running
             /\ tick' = app.tick
             /\ metrics' = app.metrics
             /\ now' = instant
    /\ pc' = "while"
    /\ UNCHANGED <<res, exit, termVars, screen, frames, timeouts, keys, event, unitVars>>

\* a loop that tests nothing
while_always ==
    /\ pc = "while"
    /\ pc' = "draw"
    /\ res' = res
    /\ UNCHANGED <<appVars, exit, termVars, loopVars, unitVars>>

\* while app.running { ... } Ok(())
while ==
    /\ pc = "while"
    /\ IF running THEN pc' = "draw" /\ res' = res
                  ELSE pc' = "disable_raw_mode" /\ res' = "Ok"
    /\ UNCHANGED <<appVars, exit, termVars, loopVars, unitVars>>

\* terminal.draw(|f| ui(f, &app))?
draw(ok) ==
    /\ pc = "draw"
    /\ frames < MaxFrames
    /\ IF ok THEN /\ screen' = ui(App)
                  /\ frames' = frames + 1
                  /\ pc' = "poll"
                  /\ res' = res
             ELSE /\ UNCHANGED <<screen, frames>>
                  /\ pc' = "disable_raw_mode"
                  /\ res' = "Err"
    /\ UNCHANGED <<appVars, exit, termVars, timeouts, keys, event, now, unitVars>>

\* event::poll(tick_rate)? gives false: app.on_tick()
poll_timeout ==
    /\ pc = "poll"
    /\ tick < MaxTick
    /\ \E instant \in now..MaxInstant :
          LET app == on_tick(App, instant)
          IN /\ running' = app.running
             /\ tick' = app.tick
             /\ metrics' = app.metrics
             /\ now' = instant
    /\ timeouts' = timeouts + 1
    /\ event' = <<>>
    /\ pc' = "while"
    /\ UNCHANGED <<res, exit, termVars, screen, frames, keys, unitVars>>

\* every key event reaches on_key, whatever its kind
poll_event_any_kind(ev) ==
    /\ pc = "poll"
    /\ event' = ev
    /\ IF ev.t = "Key"
       THEN LET app == on_key(App, ev.code)
            IN /\ running' = app.running
               /\ tick' = app.tick
               /\ metrics' = app.metrics
               /\ keys' = keys + 1
       ELSE UNCHANGED <<appVars, keys>>
    /\ pc' = "while"
    /\ UNCHANGED <<res, exit, termVars, screen, frames, timeouts, now, unitVars>>

\* event::poll(tick_rate)? gives true and event::read()? gives ev
poll_event(ev) ==
    /\ pc = "poll"
    /\ event' = ev
    /\ IF ev.t = "Key" /\ ev.kind = "Press"
       THEN LET app == on_key(App, ev.code)
            IN /\ running' = app.running
               /\ tick' = app.tick
               /\ metrics' = app.metrics
               /\ keys' = keys + 1
       ELSE UNCHANGED <<appVars, keys>>
    /\ pc' = "while"
    /\ UNCHANGED <<res, exit, termVars, screen, frames, timeouts, now, unitVars>>

\* event::poll(tick_rate)? or event::read()? fails: run_app returns the error
poll_fail ==
    /\ pc = "poll"
    /\ pc' = "disable_raw_mode"
    /\ res' = "Err"
    /\ UNCHANGED <<appVars, exit, termVars, loopVars, unitVars>>

\* disable_raw_mode()?
DisableRawMode(ok) ==
    /\ pc = "disable_raw_mode"
    /\ attempted' = attempted \cup {"disable_raw_mode"}
    /\ IF ok THEN rawMode' = FALSE /\ pc' = "LeaveAlternateScreen" /\ exit' = exit
             ELSE rawMode' = rawMode /\ Return("Err")
    /\ UNCHANGED <<appVars, res, altScreen, loopVars, unitVars>>

\* execute!(terminal.backend_mut(), LeaveAlternateScreen)?
LeaveAlternateScreen(ok) ==
    /\ pc = "LeaveAlternateScreen"
    /\ attempted' = attempted \cup {"LeaveAlternateScreen"}
    /\ IF ok THEN altScreen' = FALSE /\ pc' = "show_cursor" /\ exit' = exit
             ELSE altScreen' = altScreen /\ Return("Err")
    /\ UNCHANGED <<appVars, res, rawMode, loopVars, unitVars>>

\* terminal.show_cursor()?; res
ShowCursor(ok) ==
    /\ pc = "show_cursor"
    /\ attempted' = attempted \cup {"show_cursor"}
    /\ Return(IF ok THEN res ELSE "Err")
    /\ UNCHANGED <<appVars, res, rawMode, altScreen, loopVars, unitVars>>

Next ==
    \/ \E ok \in BOOLEAN : EnableRawMode(ok)
    \/ \E ok \in BOOLEAN : EnterAlternateScreen(ok)
    \/ \E ok \in BOOLEAN : Terminal_new(ok)
    \/ run_app
    \/ while
    \/ \E ok \in BOOLEAN : draw(ok)
    \/ poll_timeout
    \/ \E ev \in Events : poll_event(ev)
    \/ poll_fail
    \/ \E ok \in BOOLEAN : DisableRawMode(ok)
    \/ \E ok \in BOOLEAN : LeaveAlternateScreen(ok)
    \/ \E ok \in BOOLEAN : ShowCursor(ok)

Spec == Init /\ [][Next]_vars

\* ---------------------------------------------------------------- the methods of App, from any state
OptMb == {None} \cup {Some(x) : x \in 0..MaxMb} \cup {Some(15000), Some(16384), Some(20000)}

\* a device with readings near the top of every range
HotDevice(used, total) ==
    GpuMetrics(<<"G","P","U">>, Some(F32(920)), Some(F32(1050)), Some(F32(849)),
               Some(F32(915)), used, total, Some(F32(2205)), Some(0), Some(2400), None, 0)

\* a device none of whose sensors answers
AbsentDevice ==
    GpuMetrics(<<"?">>, None, None, None, None, None, None, None, None, None, None, 0)

RECURSIVE Absent(_)
Absent(k) == IF k = 0 THEN <<>> ELSE <<AbsentDevice>> \o Absent(k - 1)

TestMetrics ==
    {<<>>} \cup {<<HotDevice(u, t)>> \o Absent(k) : u \in OptMb, t \in OptMb, k \in 0..(MaxDevices - 1)}
           \cup {<<AbsentDevice>>}

Apps == {[running |-> r, tick |-> n, metrics |-> ms] :
            r \in BOOLEAN, n \in 0..MaxTick, ms \in TestMetrics}

InitApp ==
    /\ \E app \in Apps : running = app.running /\ tick = app.tick /\ metrics = app.metrics
    /\ pc = "unit"
    /\ res = "none"
    /\ exit = "none"
    /\ rawMode = FALSE
    /\ altScreen = FALSE
    /\ attempted = {}
    /\ screen = <<>>
    /\ frames = 0
    /\ timeouts = 0
    /\ keys = 0
    /\ event = <<>>
    /\ now = 0
    /\ call = NoCall
    /\ ret = <<>>

\* app.on_tick()
App_on_tick ==
    /\ pc = "unit"
    /\ tick <= MaxTick
    /\ \E instant \in now..MaxInstant :
          LET app == on_tick(App, instant)
          IN /\ running' = app.running
             /\ tick' = app.tick
             /\ metrics' = app.metrics
             /\ now' = instant
             /\ call' = [op |-> "on_tick", args |-> <<App, instant>>]
    /\ UNCHANGED <<pc, res, exit, termVars, screen, frames, timeouts, keys, event, ret>>

\* app.on_key(code)
App_on_key(code) ==
    /\ pc = "unit"
    /\ LET app == on_key(App, code)
       IN /\ running' = app.running
          /\ tick' = app.tick
          /\ metrics' = app.metrics
    /\ call' = [op |-> "on_key", args |-> <<App, code>>]
    /\ UNCHANGED <<pc, res, exit, termVars, loopVars, ret>>

NextApp ==
    \/ App_on_tick
    \/ \E code \in KeyCodes : App_on_key(code)

SpecApp == InitApp /\ [][NextApp]_vars

\* ---------------------------------------------------------------- the pure functions, on any input
ThresholdValues == {800, 900, 950, 1050, 850, 2200, 3000}

F32Values == {F32(k + e) : k \in ThresholdValues, e \in (0 - Eps)..Eps} \cup {F32(0), NaN}

OptF32 == {None} \cup {Some(x) : x \in F32Values}

InitFn ==
    /\ running = App_new.running
    /\ tick = App_new.tick
    /\ metrics = App_new.metrics
    /\ pc = "unit"
    /\ res = "none"
    /\ exit = "none"
    /\ rawMode = FALSE
    /\ altScreen = FALSE
    /\ attempted = {}
    /\ screen = <<>>
    /\ frames = 0
    /\ timeouts = 0
    /\ keys = 0
    /\ event = <<>>
    /\ now = 0
    /\ call = NoCall
    /\ ret = <<>>

\* one call of a pure function on one input: it keeps no state between calls
Called(op, args, result) ==
    /\ pc = "unit"
    /\ call = NoCall
    /\ call' = [op |-> op, args |-> args]
    /\ ret' = result
    /\ UNCHANGED <<appVars, pc, res, exit, termVars, loopVars>>

Call_fmt_vram(used, total) == Called("fmt_vram", <<used, total>>, fmt_vram(used, total))
Call_vram_ratio(used, total) == Called("vram_ratio", <<used, total>>, vram_ratio(used, total))
Call_temp_style(v) == Called("temp_style", <<v>>, temp_style(v))
Call_power_style(v) == Called("power_style", <<v>>, power_style(v))
Call_junction_style(v) == Called("junction_style", <<v>>, junction_style(v))
Call_mem_temp_style(v) == Called("mem_temp_style", <<v>>, mem_temp_style(v))
Call_ui(app) == Called("ui", <<app>>, ui(app))

NextFn ==
    \/ \E u \in OptMb, t \in OptMb : Call_fmt_vram(u, t)
    \/ \E u \in OptMb, t \in OptMb : Call_vram_ratio(u, t)
    \/ \E v \in OptF32 : Call_temp_style(v)
    \/ \E v \in OptF32 : Call_power_style(v)
    \/ \E v \in OptF32 : Call_junction_style(v)
    \/ \E v \in OptF32 : Call_mem_temp_style(v)
    \/ \E app \in Apps : Call_ui(app)

SpecFn == InitFn /\ [][NextFn]_vars

\* ---------------------------------------------------------------- properties
Chars(str) == {str[i] : i \in 1..Len(str)}
InLoop == pc \in {"while", "draw", "poll"}

\* C1: on_tick, applied to any state (running, tick = n, any metrics), leaves
\* metrics exactly the sampler's output for counter n (nothing of the old
\* metrics survives), tick = n + 1 and running as it was.
C1_OnTick ==
    call.op = "on_tick" =>
        LET before == call.args[1]
            instant == call.args[2]
        IN /\ metrics = sample_fake(before.tick, instant)
           /\ Len(metrics) = 1
           /\ tick = before.tick + 1
           /\ running = before.running

\* on_tick has replaced two old devices, in a stopped state
C1_Witness ==
    /\ call.op = "on_tick"
    /\ Len(call.args[1].metrics) = 2
    /\ call.args[1].tick = 2
    /\ ~running

\* C2: on_key(code) sets running to false when code is 'q' or Escape and
\* leaves it unchanged for every other code; tick and metrics are unchanged.
C2_OnKey ==
    call.op = "on_key" =>
        LET before == call.args[1]
            code == call.args[2]
        IN /\ running = IF code = Char("q") \/ code = Esc THEN FALSE ELSE before.running
           /\ tick = before.tick
           /\ metrics = before.metrics

\* a key other than the quit keys has left a running App running
C2_Witness ==
    /\ call.op = "on_key"
    /\ call.args[2] = Char("x")
    /\ call.args[1].running
    /\ running
    /\ tick = 3

\* C3: in run_app Stopped is absorbing and observed at once: after on_key has
\* cleared running there is no further draw, on_tick or on_key, running stays
\* false and the loop exits with Ok; on_tick and on_key are dispatched only
\* while running holds.
C3_StoppedAbsorbing ==
    /\ [][~running =>
            /\ ~running'
            /\ frames' = frames
            /\ tick' = tick
            /\ metrics' = metrics
            /\ timeouts' = timeouts
            /\ keys' = keys]_vars
    /\ [][(tick' # tick \/ keys' # keys \/ timeouts' # timeouts) => running]_vars
    /\ [][~running /\ pc = "while" => pc' = "disable_raw_mode" /\ res' = "Ok"]_vars
    /\ [](~running =>
            /\ pc \in {"while", "disable_raw_mode", "LeaveAlternateScreen",
                       "show_cursor", "exited"}
            /\ pc # "while" => res = "Ok")

\* the loop was left by a quit key after several ticks and main returned Ok
C3_Witness ==
    /\ ~running
    /\ pc = "exited"
    /\ exit = "Ok"
    /\ tick = 3
    /\ event = KeyEvent("Press", Esc)

\* C4: each loop iteration either times out and runs on_tick once, or reads an
\* event and leaves tick and metrics alone; on_key is dispatched for Press key
\* events only, any other event changes nothing of the App; so tick never
\* decreases and is 1 plus the number of timed-out iterations.
C4_TickPerTimeout ==
    /\ [][pc = "poll" /\ pc' = "while" =>
            \/ /\ event' = <<>>
               /\ timeouts' = timeouts + 1
               /\ tick' = tick + 1
               /\ keys' = keys
               /\ running' = running
            \/ /\ event' # <<>>
               /\ timeouts' = timeouts
               /\ tick' = tick
               /\ metrics' = metrics
               /\ IF event'.t = "Key" /\ event'.kind = "Press"
                  THEN keys' = keys + 1
                  ELSE keys' = keys /\ running' = running]_vars
    /\ [][tick' >= tick]_vars
    /\ [](InLoop => tick = 1 + timeouts)

\* a release of the quit key was read after two timeouts and the loop goes on
C4_Witness ==
    /\ pc = "draw"
    /\ event = KeyEvent("Release", Char("q"))
    /\ timeouts = 2
    /\ tick = 3
    /\ keys = 1

\* C5: every frame, the first included, is drawn from a state to which on_tick
\* has been applied: at each draw tick >= 1, metrics is not empty and is the
\* sampler's output for counter tick - 1.
C5_DrawAfterTick ==
    pc = "draw" =>
        /\ tick >= 1
        /\ metrics # <<>>
        /\ \E instant \in 0..now : metrics = sample_fake(tick - 1, instant)

\* the first frame is about to be drawn
C5_Witness ==
    /\ pc = "draw"
    /\ frames = 0
    /\ tick = 1

FirstFrameShowsSample0 ==
    /\ \E instant \in 0..now : screen.body = text_lines(sample_fake(0, instant), 1)
    /\ screen.body[2][2].content = <<"4","5",".","0"," ","deg","C">>
    /\ screen.vram_gauge.label =
          <<"V","R","A","M"," ","1","2","0","0"," ","/"," ","1","6","3","8","4"," ","M","B">>

\* C6 as stated: the first frame shows the sample for counter 0 and its
\* footer contains no "1".
C6_FooterWithoutOne ==
    frames = 1 => FirstFrameShowsSample0 /\ "1" \notin Chars(screen.footer)

\* C6 amended: the first frame shows the sample for counter 0 and its footer
\* shows the counter after the forced tick, "Tick: 1   (data is mocked)".
C6_FooterShowsOne ==
    frames = 1 =>
        /\ FirstFrameShowsSample0
        /\ screen.footer = <<"T","i","c","k",":"," ","1"," "," "," ","(","d","a","t","a"," ",
                             "i","s"," ","m","o","c","k","e","d",")">>

\* the first frame is on the screen and nothing has happened since
C6_Witness ==
    /\ frames = 1
    /\ pc = "poll"
    /\ tick = 1
    /\ screen # <<>>

\* C7 as stated: whenever main returns after raw mode was enabled, all three
\* teardown steps have been attempted.
C7_TeardownAlways ==
    exit # "none" /\ (rawMode \/ attempted # {}) => attempted = Teardown

\* C8: vram_ratio lies in [0,1]; it is 0 when used or total is absent or total
\* is 0, used/total when used <= total, and exactly 1 when used > total.
C8_VramRatio ==
    call.op = "vram_ratio" =>
        LET used == call.args[1]
            total == call.args[2]
        IN /\ ~ret.nan /\ ret.m > 0 /\ 0 <= ret.n /\ ret.n <= ret.m
           /\ IF used = None \/ total = None \/ total = Some(0)
              THEN ret.n = 0
              ELSE IF Unwrap(used) <= Unwrap(total)
              THEN ret.n * Unwrap(total) = Unwrap(used) * ret.m
              ELSE ret.n = ret.m

\* used = 20000 with total = 16384 gave a ratio
C8_Witness ==
    /\ call.op = "vram_ratio"
    /\ call.args = <<Some(20000), Some(16384)>>
    /\ ret.n = ret.m

Tier(style) ==
    CASE style.fg = "DarkGray" -> 0
      [] style.fg = "Green" -> 1
      [] style.fg = "Yellow" -> 2
      [] style.fg = "Red" -> 3

\* the tier the thresholds warn and crit give an optional value
TierOf(v, warn, crit) ==
    IF v = None THEN 0
    ELSE IF ~Unwrap(v).nan /\ Unwrap(v).d >= crit THEN 3
    ELSE IF ~Unwrap(v).nan /\ Unwrap(v).d >= warn THEN 2
    ELSE 1

Numbers == {x \in F32Values : ~x.nan}

\* C9: each of the four classifiers (temperature 80/90, junction 95/105,
\* memory temperature 85/95, power 220/300) answers gray exactly for an absent
\* input, and for a present v red iff v >= critical, yellow iff warning <= v <
\* critical, green otherwise; the tier never decreases as v grows.
C9_Classifiers ==
    /\ call.op = "temp_style" => Tier(ret) = TierOf(call.args[1], 800, 900)
    /\ call.op = "junction_style" => Tier(ret) = TierOf(call.args[1], 950, 1050)
    /\ call.op = "mem_temp_style" => Tier(ret) = TierOf(call.args[1], 850, 950)
    /\ call.op = "power_style" => Tier(ret) = TierOf(call.args[1], 2200, 3000)
    /\ \A a \in Numbers, b \in Numbers :
          a.d <= b.d =>
              /\ Tier(temp_style(Some(a))) <= Tier(temp_style(Some(b)))
              /\ Tier(junction_style(Some(a))) <= Tier(junction_style(Some(b)))
              /\ Tier(mem_temp_style(Some(a))) <= Tier(mem_temp_style(Some(b)))
              /\ Tier(power_style(Some(a))) <= Tier(power_style(Some(b)))

\* the general temperature classifier was given exactly 90 degrees
C9_Witness ==
    /\ call.op = "temp_style"
    /\ call.args = <<Some(F32(900))>>
    /\ ret = Style("Red")

\* the text the claim gives for a used/total pair
ClaimedVramText(used, total) ==
    IF IsSome(used) /\ IsSome(total)
    THEN to_string(Unwrap(used)) \o <<" ","/"," ">> \o to_string(Unwrap(total)) \o <<" ","M","B">>
    ELSE IF IsSome(used)
    THEN to_string(Unwrap(used)) \o <<" ","M","B"," ","/"," ","?"," ","M","B">>
    ELSE <<"-","-">>

\* C10 as stated: fmt_vram, and the VRAM gauge label after its "VRAM " prefix,
\* read "U / T MB" with both halves, "U MB / ? MB" with used only, "--" otherwise.
C10_VramText ==
    /\ call.op = "fmt_vram" => ret = ClaimedVramText(call.args[1], call.args[2])
    /\ call.op = "ui" /\ call.args[1].metrics # <<>> =>
          LET gpu == call.args[1].metrics[1]
          IN ret.vram_gauge.label =
                <<"V","R","A","M"," ">> \o ClaimedVramText(gpu.vram_used_mb, gpu.vram_total_mb)

====
